---- MODULE Spec2Model ----
(***************************************************************************)
(* A model of go-earcut (src/earcut.go): ear-clipping triangulation of a   *)
(* polygon with holes over a circular doubly linked ring of nodes.         *)
(*                                                                         *)
(* Coordinates are integers, so every product and sum of the source is     *)
(* exact; the three divisions of the source (findHoleBridge twice,         *)
(* middleInside once) are carried as extended rationals <<n, d>> with      *)
(* d >= 0, where d = 0 encodes +Inf (n = 1), -Inf (n = -1) and NaN (n = 0) *)
(* as IEEE division by zero produces them.                                 *)
(*                                                                         *)
(* Go slices are 0-based; data and holeIndices are kept as TLA+ sequences  *)
(* and read through Data(i) and Hole(i), which take the 0-based index.     *)
(* Nodes live in the sequence `nodes`; a *node is its position, nil is 0.  *)
(***************************************************************************)
EXTENDS Integers, Sequences, FiniteSets, TLC

VARIABLES data, holeIndices, dim,   \* the arguments of Earcut
          nodes,                    \* the heap of node structs
          triangles, err,           \* the results of Earcut
          bbox,                     \* minX, minY, invSize of Earcut
          pc, loc, stack,           \* control: label, locals, pending frames
          ghost,                    \* history used to state the claims
          round, first,             \* second call on the reversed input
          dev                       \* the value returned by Deviation

vars == <<data, holeIndices, dim, nodes, triangles, err, bbox, pc, loc, stack,
          ghost, round, first, dev>>

-----------------------------------------------------------------------------
(* Bounds of the model *)

GridMax == 2
StripMax == 1
MaxOuter == 4
MaxHole == 1
Side == 3
Shift == 1
MaxInner == 3
MaxOuterDim == 3
HexLen == 6
DevGrid == 1
DevLen == 6
BandWidth == 40
PatternLen == 2
ZSizeLog == 2
ZOrigin == 1

-----------------------------------------------------------------------------
(* Small helpers *)

Nil == 0
NoZ == <<>>

Abs(v) == IF v < 0 THEN -v ELSE v
Sgn(v) == IF v > 0 THEN 1 ELSE IF v < 0 THEN -1 ELSE 0
Max(a, b) == IF a > b THEN a ELSE b
Min(a, b) == IF a < b THEN a ELSE b

(* float64 values that are not integers: extended rationals *)
PInf == <<1, 0>>
NInf == <<-1, 0>>
NaN == <<0, 0>>
FInt(k) == <<k, 1>>
FIsNaN(a) == a[2] = 0 /\ a[1] = 0
FDiv(n, d) ==
    IF d = 0 THEN <<Sgn(n), 0>>
    ELSE IF d < 0 THEN <<-n, -d>> ELSE <<n, d>>
FAddInt(k, a) == IF a[2] = 0 THEN a ELSE <<k * a[2] + a[1], a[2]>>
FLt(a, b) ==
    /\ ~FIsNaN(a)
    /\ ~FIsNaN(b)
    /\ IF a[2] = 0 /\ b[2] = 0 THEN a[1] < b[1] ELSE a[1] * b[2] < b[1] * a[2]
FEq(a, b) ==
    /\ ~FIsNaN(a)
    /\ ~FIsNaN(b)
    /\ IF a[2] = 0 \/ b[2] = 0 THEN a = b ELSE a[1] * b[2] = b[1] * a[2]
FLe(a, b) == FLt(a, b) \/ FEq(a, b)

Data(i) == data[i + 1]
Hole(i) == holeIndices[i + 1]

-----------------------------------------------------------------------------
(* The ring primitives *)

newNode(i, x, y) ==
    [i |-> i, x |-> x, y |-> y, prev |-> Nil, next |-> Nil, z |-> NoZ,
     prevZ |-> Nil, nextZ |-> Nil, steiner |-> FALSE]

insertNode(h, i, x, y, last) ==
    LET p == Len(h) + 1
    IN  IF last = Nil
        THEN Append(h, [newNode(i, x, y) EXCEPT !.prev = p, !.next = p])
        ELSE LET ln == h[last].next
                 h1 == Append(h, [newNode(i, x, y) EXCEPT !.next = ln, !.prev = last])
                 h2 == [h1 EXCEPT ![ln].prev = p]
             IN  [h2 EXCEPT ![last].next = p]

removeNode(h, p) ==
    LET h1 == [h EXCEPT ![h[p].next].prev = h[p].prev]
        h2 == [h1 EXCEPT ![h1[p].prev].next = h1[p].next]
        h3 == IF h2[p].prevZ # Nil
              THEN [h2 EXCEPT ![h2[p].prevZ].nextZ = h2[p].nextZ]
              ELSE h2
    IN  IF h3[p].nextZ # Nil
        THEN [h3 EXCEPT ![h3[p].nextZ].prevZ = h3[p].prevZ]
        ELSE h3

(* the heap after splitPolygon(a, b); the node returned is Len(h) + 2 *)
splitPolygon(h, a, b) ==
    LET a2 == Len(h) + 1
        b2 == Len(h) + 2
        h0 == h \o <<newNode(h[a].i, h[a].x, h[a].y), newNode(h[b].i, h[b].x, h[b].y)>>
        an == h0[a].next
        bp == h0[b].prev
        h1 == [h0 EXCEPT ![a].next = b]
        h2 == [h1 EXCEPT ![b].prev = a]
        h3 == [h2 EXCEPT ![a2].next = an]
        h4 == [h3 EXCEPT ![an].prev = a2]
        h5 == [h4 EXCEPT ![b2].next = a2]
        h6 == [h5 EXCEPT ![a2].prev = b2]
        h7 == [h6 EXCEPT ![bp].next = b2]
    IN  [h7 EXCEPT ![b2].prev = bp]

-----------------------------------------------------------------------------
(* Geometry *)

area(h, p, q, r) ==
    (h[q].y - h[p].y) * (h[r].x - h[q].x) - (h[q].x - h[p].x) * (h[r].y - h[q].y)

equals(h, p1, p2) == h[p1].x = h[p2].x /\ h[p1].y = h[p2].y

pointInTriangle(ax, ay, bx, by, cx, cy, px, py) ==
    /\ (cx - px) * (ay - py) - (ax - px) * (cy - py) >= 0
    /\ (ax - px) * (by - py) - (bx - px) * (ay - py) >= 0
    /\ (bx - px) * (cy - py) - (cx - px) * (by - py) >= 0

intersects(h, p1, q1, p2, q2) ==
    IF \/ (equals(h, p1, q1) /\ equals(h, p2, q2))
       \/ (equals(h, p1, q2) /\ equals(h, p2, q1))
    THEN TRUE
    ELSE /\ (area(h, p1, q1, p2) > 0) # (area(h, p1, q1, q2) > 0)
         /\ (area(h, p2, q2, p1) > 0) # (area(h, p2, q2, q1) > 0)

locallyInside(h, a, b) ==
    IF area(h, h[a].prev, a, h[a].next) < 0
    THEN area(h, a, b, h[a].next) >= 0 /\ area(h, a, h[a].prev, b) >= 0
    ELSE area(h, a, b, h[a].prev) < 0 \/ area(h, a, h[a].next, b) < 0

RECURSIVE intersectsPolygonFrom(_, _, _, _)
intersectsPolygonFrom(h, a, b, p) ==
    IF /\ h[p].i # h[a].i
       /\ h[h[p].next].i # h[a].i
       /\ h[p].i # h[b].i
       /\ h[h[p].next].i # h[b].i
       /\ intersects(h, p, h[p].next, a, b)
    THEN TRUE
    ELSE IF h[p].next = a THEN FALSE
         ELSE intersectsPolygonFrom(h, a, b, h[p].next)

intersectsPolygon(h, a, b) == intersectsPolygonFrom(h, a, b, a)

(* px and py are halves: px = px2 / 2, py = py2 / 2 *)
RECURSIVE middleInsideFrom(_, _, _, _, _, _)
middleInsideFrom(h, a, px2, py2, p, inside) ==
    LET pn == h[p].next
        flip == /\ (2 * h[p].y > py2) # (2 * h[pn].y > py2)
                /\ h[pn].y # h[p].y
                /\ FLt(<<px2, 2>>,
                       FAddInt(h[p].x,
                               FDiv((h[pn].x - h[p].x) * (py2 - 2 * h[p].y),
                                    2 * (h[pn].y - h[p].y))))
        now == IF flip THEN ~inside ELSE inside
    IN  IF pn = a THEN now ELSE middleInsideFrom(h, a, px2, py2, pn, now)

middleInside(h, a, b) ==
    middleInsideFrom(h, a, h[a].x + h[b].x, h[a].y + h[b].y, a, FALSE)

isValidDiagonal(h, a, b) ==
    /\ h[h[a].next].i # h[b].i
    /\ h[h[a].prev].i # h[b].i
    /\ ~intersectsPolygon(h, a, b)
    /\ locallyInside(h, a, b)
    /\ locallyInside(h, b, a)
    /\ middleInside(h, a, b)

RECURSIVE signedAreaFrom(_, _, _, _, _, _)
signedAreaFrom(d, i, j, end, dm, sum) ==
    IF i < end
    THEN signedAreaFrom(d, i + dm, i, end, dm,
                        sum + (d[j + 1] - d[i + 1]) * (d[i + 2] + d[j + 2]))
    ELSE sum

signedArea(d, start, end, dm) == signedAreaFrom(d, start, end - dm, end, dm, 0)

-----------------------------------------------------------------------------
(* The read-only scans of the ring *)

RECURSIVE isEarFrom(_, _, _, _, _)
isEarFrom(h, a, b, c, p) ==
    IF p = a THEN TRUE
    ELSE IF /\ pointInTriangle(h[a].x, h[a].y, h[b].x, h[b].y, h[c].x, h[c].y,
                               h[p].x, h[p].y)
            /\ area(h, h[p].prev, p, h[p].next) >= 0
         THEN FALSE
         ELSE isEarFrom(h, a, b, c, h[p].next)

isEarNonStrict(h, ear) ==
    LET a == h[ear].prev
        b == ear
        c == h[ear].next
    IN  IF area(h, a, b, c) > 0 THEN FALSE
        ELSE isEarFrom(h, a, b, c, h[h[ear].next].next)

isEarReflex(h, ear) ==
    LET a == h[ear].prev
        b == ear
        c == h[ear].next
    IN  IF area(h, a, b, c) <= 0 THEN FALSE
        ELSE isEarFrom(h, a, b, c, h[h[ear].next].next)

isEar(h, ear) ==
    LET a == h[ear].prev
        b == ear
        c == h[ear].next
    IN  IF area(h, a, b, c) >= 0 THEN FALSE
        ELSE isEarFrom(h, a, b, c, h[h[ear].next].next)

RECURSIVE getLeftmostFrom(_, _, _, _)
getLeftmostFrom(h, start, p, leftmost) ==
    CHOOSE r \in {IF h[p].next = start THEN l
                  ELSE getLeftmostFrom(h, start, h[p].next, l) :
                     l \in {IF h[p].x < h[leftmost].x THEN p ELSE leftmost}} : TRUE

getLeftmost(h, start) == getLeftmostFrom(h, start, start, start)

(* x-coordinate at which findHoleBridge takes the edge (p, p.next) to meet   *)
(* the line y = hy                                                          *)
bridgeX(h, p, hy) ==
    LET pn == h[p].next
    IN  FAddInt(h[p].x,
                FDiv((hy - h[p].y) * (h[pn].x - h[p].x), h[pn].y - h[p].x))

(* Both loops of findHoleBridge carry their running values in a record that *)
(* is bound by a set constructor, so that each iteration is evaluated once. *)

(* body of the first loop: the running qx and m after the edge (p, p.next), *)
(* or the endpoint the loop returns at once                                 *)
findHoleBridgeEdge(h, hx, hy, p, s) ==
    LET pn == h[p].next
        x == bridgeX(h, p, hy)
        take == /\ hy <= h[p].y
                /\ hy >= h[pn].y
                /\ h[pn].y # h[p].y
                /\ FLe(x, FInt(hx))
                /\ FLt(s.qx, x)
        touch == take /\ FEq(x, FInt(hx))
    IN  IF touch /\ hy = h[p].y THEN [found |-> TRUE, node |-> p]
        ELSE IF touch /\ hy = h[pn].y THEN [found |-> TRUE, node |-> pn]
        ELSE IF take
        THEN [found |-> FALSE, qx |-> x, m |-> IF h[p].x < h[pn].x THEN p ELSE pn]
        ELSE [found |-> FALSE, qx |-> s.qx, m |-> s.m]

(* first loop of findHoleBridge: the segment hit by the ray to the left *)
RECURSIVE findHoleBridgeSegment(_, _, _, _, _, _)
findHoleBridgeSegment(h, hx, hy, outerNode, p, s) ==
    CHOOSE r \in {IF t.found \/ h[p].next = outerNode THEN t
                  ELSE findHoleBridgeSegment(h, hx, hy, outerNode, h[p].next, t) :
                     t \in {findHoleBridgeEdge(h, hx, hy, p, s)}} : TRUE

(* body of the second loop: the running m and tanMin after the node p; the  *)
(* x-coordinates handed to pointInTriangle are scaled by the denominator of *)
(* xx, which is positive                                                    *)
findHoleBridgeNode(h, hole, hx, hy, qx, mx, my, p, s) ==
    LET xx == IF hy < my THEN FInt(hx) ELSE qx
        tan == FDiv(Abs(hy - h[p].y), hx - h[p].x)
        better == /\ hx >= h[p].x
                  /\ h[p].x >= mx
                  /\ hx # h[p].x
                  /\ pointInTriangle(xx[1], hy, mx * xx[2], my, xx[1], hy,
                                     h[p].x * xx[2], h[p].y)
                  /\ (FLt(tan, s.tanMin) \/ (FEq(tan, s.tanMin) /\ h[p].x > h[s.m].x))
                  /\ locallyInside(h, p, hole)
    IN  IF better THEN [m |-> p, tanMin |-> tan] ELSE s

(* second loop of findHoleBridge: the point of minimum angle with the ray *)
RECURSIVE findHoleBridgePoint(_, _, _, _, _, _, _, _, _, _)
findHoleBridgePoint(h, hole, hx, hy, qx, stop, mx, my, p, s) ==
    IF p = stop THEN s.m
    ELSE CHOOSE r \in {findHoleBridgePoint(h, hole, hx, hy, qx, stop, mx, my,
                                           h[p].next, t) :
                          t \in {findHoleBridgeNode(h, hole, hx, hy, qx, mx, my, p, s)}} :
             TRUE

findHoleBridge(h, hole, outerNode) ==
    LET hx == h[hole].x
        hy == h[hole].y
    IN  CHOOSE r \in
            {IF seg.found THEN seg.node
             ELSE IF seg.m = Nil THEN Nil
             ELSE IF FEq(FInt(hx), seg.qx) THEN h[seg.m].prev
             ELSE findHoleBridgePoint(h, hole, hx, hy, seg.qx, seg.m, h[seg.m].x,
                                      h[seg.m].y, h[seg.m].next,
                                      [m |-> seg.m, tanMin |-> PInf]) :
                seg \in {findHoleBridgeSegment(h, hx, hy, outerNode, outerNode,
                                               [found |-> FALSE, qx |-> NInf,
                                                m |-> Nil])}} : TRUE

(* the loops of splitEarcut: the first pair (a, b) that is a valid diagonal, *)
(* <<Nil, Nil>> when the scan comes back to start without one                *)
(* lines 330-345: the first b from which a has a valid diagonal, or Nil *)
RECURSIVE splitEarcutInner(_, _, _)
splitEarcutInner(h, a, b) ==
    IF b # h[a].prev
    THEN IF h[a].i # h[b].i /\ isValidDiagonal(h, a, b)
         THEN b
         ELSE splitEarcutInner(h, a, h[b].next)
    ELSE Nil

RECURSIVE splitEarcutFind(_, _, _, _)
splitEarcutFind(h, start, a, b) ==
    CHOOSE r \in
        {IF found # Nil THEN <<a, found>>
         ELSE LET a1 == h[a].next
              IN  IF a1 = start THEN <<Nil, Nil>>
                  ELSE splitEarcutFind(h, start, a1, h[h[a1].next].next) :
            found \in {splitEarcutInner(h, a, b)}} : TRUE

-----------------------------------------------------------------------------
(* The z-order curve. An int is kept as the set of the positions of its set *)
(* bits, of which the masks of zOrder leave those below 32.                 *)

Pow2(b) == 2 ^ b

(* bits 0..31 of a Go int in two's complement *)
Bits(v) ==
    IF v >= 0
    THEN {b \in 0 .. 30 : (v \div Pow2(b)) % 2 = 1}
    ELSE (0 .. 31) \ {b \in 0 .. 30 : ((-v - 1) \div Pow2(b)) % 2 = 1}

Shl(s, k) == {b + k : b \in s}

Mask00FF00FF == (0 .. 7) \cup (16 .. 23)
Mask0F0F0F0F == {b \in 0 .. 27 : b % 8 < 4}
Mask33333333 == {b \in 0 .. 29 : b % 4 < 2}
Mask55555555 == {b \in 0 .. 30 : b % 2 = 0}

(* lines 575-578 and 580-583 *)
zSpread(s) ==
    LET s8 == (s \cup Shl(s, 8)) \cap Mask00FF00FF
        s4 == (s8 \cup Shl(s8, 4)) \cap Mask0F0F0F0F
        s2 == (s4 \cup Shl(s4, 2)) \cap Mask33333333
    IN  (s2 \cup Shl(s2, 1)) \cap Mask55555555

RECURSIVE BitsValue(_, _, _)
BitsValue(s, from, to) ==
    IF from > to THEN 0
    ELSE (IF from \in s THEN 1 ELSE 0) + 2 * BitsValue(s, from + 1, to)

(* int(f) of a float64 f = n / d with d > 0: the fraction is dropped. For a  *)
(* box narrower than 49 the float64 product (x - minX) * (1 / size) has the  *)
(* integer part of the quotient (x - minX) / size.                           *)
TruncDiv(n, d) == IF n >= 0 THEN n \div d ELSE -((-n) \div d)

(* lines 572-573: the factor 32767 is applied to the truncated value *)
zQuantize(v, min, invSize) == 32767 * TruncDiv((v - min) * invSize[1], invSize[2])

(* the value of zOrder, as the pair of its upper and lower 16 bits *)
zOrder(x, y, minX, minY, invSize) ==
    LET ix == zSpread(Bits(zQuantize(x, minX, invSize)))
        iy == zSpread(Bits(zQuantize(y, minY, invSize)))
        z == ix \cup Shl(iy, 1)
    IN  <<BitsValue(z, 16, 31), BitsValue(z, 0, 15)>>

zLe(a, b) == a[1] < b[1] \/ (a[1] = b[1] /\ a[2] <= b[2])

(* sortLinked. Its loops work on the list, the tail, the runs p and q and    *)
(* their sizes; `fuel` counts the elements still to be taken and ends a sort *)
(* whose list is no list (it never ends, then, and `endless` says so).       *)

(* lines 524-530: q is moved inSize nodes on, or to the end of the list *)
RECURSIVE sortLinkedSkip(_, _, _, _, _)
sortLinkedSkip(h, q, inSize, i, pSize) ==
    IF i < inSize
    THEN IF h[q].nextZ = Nil THEN <<Nil, pSize + 1>>
         ELSE sortLinkedSkip(h, h[q].nextZ, inSize, i + 1, pSize + 1)
    ELSE <<q, pSize>>

(* lines 535-552: the smaller head of the two runs is moved to the tail *)
sortLinkedTake(s) ==
    LET fromP == /\ s.pSize # 0
                 /\ (s.qSize = 0 \/ s.q = Nil \/ zLe(s.h[s.p].z, s.h[s.q].z))
        e == IF fromP THEN s.p ELSE s.q
        h1 == IF s.tail # Nil THEN [s.h EXCEPT ![s.tail].nextZ = e] ELSE s.h
    IN  [h |-> [h1 EXCEPT ![e].prevZ = s.tail],
         list |-> IF s.tail # Nil THEN s.list ELSE e,
         tail |-> e,
         p |-> IF fromP THEN s.h[s.p].nextZ ELSE s.p,
         q |-> IF fromP THEN s.q ELSE s.h[s.q].nextZ,
         pSize |-> IF fromP THEN s.pSize - 1 ELSE s.pSize,
         qSize |-> IF fromP THEN s.qSize ELSE s.qSize - 1,
         numMerges |-> s.numMerges,
         fuel |-> s.fuel - 1]

(* line 533: the merge of the runs p and q *)
RECURSIVE sortLinkedMerge(_)
sortLinkedMerge(s) ==
    IF s.fuel > 0 /\ (s.pSize > 0 \/ (s.qSize > 0 /\ s.q # Nil))
    THEN CHOOSE r \in {sortLinkedMerge(t) : t \in {sortLinkedTake(s)}} : TRUE
    ELSE s

(* lines 520-556: one pass over the list, merging runs of inSize nodes *)
RECURSIVE sortLinkedPass(_, _)
sortLinkedPass(s, inSize) ==
    IF s.fuel > 0 /\ s.p # Nil
    THEN CHOOSE r \in
             {sortLinkedPass([m EXCEPT !.p = m.q], inSize) :
                 m \in {sortLinkedMerge([s EXCEPT !.q = qp[1], !.pSize = qp[2],
                                                   !.qSize = inSize,
                                                   !.numMerges = s.numMerges + 1]) :
                           qp \in {sortLinkedSkip(s.h, s.p, inSize, 0, 0)}}} : TRUE
    ELSE s

(* lines 514-564 *)
RECURSIVE sortLinkedFrom(_, _, _, _)
sortLinkedFrom(h, list, inSize, fuel) ==
    CHOOSE r \in
        {IF s.fuel = 0 THEN [h |-> s.h, list |-> s.list, endless |-> TRUE]
         ELSE IF s.numMerges <= 1
         THEN [h |-> [s.h EXCEPT ![s.tail].nextZ = Nil], list |-> s.list,
               endless |-> FALSE]
         ELSE sortLinkedFrom([s.h EXCEPT ![s.tail].nextZ = Nil], s.list, inSize * 2,
                             s.fuel) :
            s \in {sortLinkedPass([h |-> h, list |-> Nil, tail |-> Nil, p |-> list,
                                   q |-> Nil, pSize |-> 0, qSize |-> 0,
                                   numMerges |-> 0, fuel |-> fuel], inSize)}} : TRUE

(* a list of n nodes is sorted in at most 1 + log2(n) <= n passes of n      *)
(* elements                                                                *)
sortLinked(h, list) == sortLinkedFrom(h, list, 1, Len(h) * Len(h) + 1)

(* lines 488-499: z, prevZ and nextZ of the nodes of the ring of start; Nil *)
(* when following next never comes back to start                            *)
RECURSIVE indexCurveFrom(_, _, _, _, _, _, _)
indexCurveFrom(h, start, p, minX, minY, invSize, fuel) ==
    IF fuel = 0 THEN <<>>
    ELSE CHOOSE r \in
        {IF h1[p].next = start THEN h1
         ELSE indexCurveFrom(h1, start, h1[p].next, minX, minY, invSize, fuel - 1) :
            h1 \in {[h EXCEPT ![p].z = IF @ = NoZ
                                       THEN zOrder(h[p].x, h[p].y, minX, minY, invSize)
                                       ELSE @,
                              ![p].prevZ = h[p].prev,
                              ![p].nextZ = h[p].next]}} : TRUE

(* lines 486-505 *)
indexCurve(h, start, minX, minY, invSize) ==
    CHOOSE r \in
        {IF h1 = <<>> THEN [h |-> h, list |-> Nil, endless |-> TRUE]
         ELSE LET h2 == [h1 EXCEPT ![h1[start].prevZ].nextZ = Nil]
              IN  sortLinked([h2 EXCEPT ![start].prevZ = Nil], start) :
            h1 \in {indexCurveFrom(h, start, start, minX, minY, invSize, Len(h))}} : TRUE

(* lines 253-256, 261-264, 272-275, 283-286: q keeps ear from being an ear *)
isEarHashedInside(h, ear, q) ==
    LET a == h[ear].prev
        c == h[ear].next
    IN  /\ q # a
        /\ q # c
        /\ pointInTriangle(h[a].x, h[a].y, h[ear].x, h[ear].y, h[c].x, h[c].y,
                           h[q].x, h[q].y)
        /\ area(h, h[q].prev, q, h[q].next) >= 0

(* lines 282-292: a loop that meets the same n again never ends *)
RECURSIVE isEarHashedUp(_, _, _, _, _)
isEarHashedUp(h, ear, maxZ, n, seen) ==
    IF n # Nil /\ zLe(h[n].z, maxZ)
    THEN IF n \in seen THEN "endless"
         ELSE IF isEarHashedInside(h, ear, n) THEN "none"
         ELSE isEarHashedUp(h, ear, maxZ, h[n].nextZ, seen \cup {n})
    ELSE "ear"

(* lines 271-279 *)
RECURSIVE isEarHashedDown(_, _, _, _, _, _, _)
isEarHashedDown(h, ear, minZ, maxZ, p, n, seen) ==
    IF p # Nil /\ zLe(minZ, h[p].z)
    THEN IF p \in seen THEN "endless"
         ELSE IF isEarHashedInside(h, ear, p) THEN "none"
         ELSE isEarHashedDown(h, ear, minZ, maxZ, h[p].prevZ, n, seen \cup {p})
    ELSE isEarHashedUp(h, ear, maxZ, n, {})

(* lines 252-268 *)
RECURSIVE isEarHashedBoth(_, _, _, _, _, _, _)
isEarHashedBoth(h, ear, minZ, maxZ, p, n, seen) ==
    IF p # Nil /\ zLe(minZ, h[p].z) /\ n # Nil /\ zLe(h[n].z, maxZ)
    THEN IF <<p, n>> \in seen THEN "endless"
         ELSE IF isEarHashedInside(h, ear, p) \/ isEarHashedInside(h, ear, n)
         THEN "none"
         ELSE isEarHashedBoth(h, ear, minZ, maxZ, h[p].prevZ, h[n].nextZ,
                              seen \cup {<<p, n>>})
    ELSE isEarHashedDown(h, ear, minZ, maxZ, p, n, {})

(* lines 229-293: "ear", "none", or "endless" when a loop of it never ends *)
isEarHashed(h, ear, minX, minY, invSize) ==
    LET a == h[ear].prev
        c == h[ear].next
    IN  IF area(h, a, ear, c) >= 0 THEN "none"
        ELSE CHOOSE r \in
            {isEarHashedBoth(h, ear, zs[1], zs[2], h[ear].prevZ, h[ear].nextZ, {}) :
                zs \in {<<zOrder(Min(h[a].x, Min(h[ear].x, h[c].x)),
                                 Min(h[a].y, Min(h[ear].y, h[c].y)), minX, minY, invSize),
                          zOrder(Max(h[a].x, Max(h[ear].x, h[c].x)),
                                 Max(h[a].y, Max(h[ear].y, h[c].y)), minX, minY,
                                 invSize)>>}} : TRUE

-----------------------------------------------------------------------------
(* Ring measurements used by the history variable and the claims *)

RECURSIVE RingFrom(_, _, _, _)
RingFrom(h, p, seen, fuel) ==
    IF p \in seen \/ fuel = 0 THEN seen
    ELSE CHOOSE r \in {RingFrom(h, h[p].next, s, fuel - 1) : s \in {seen \cup {p}}} : TRUE

(* the nodes met by following next from p *)
Ring(h, p) == IF p = Nil THEN {} ELSE RingFrom(h, p, {}, Len(h))

RECURSIVE RingBackFrom(_, _, _, _)
RingBackFrom(h, p, seen, fuel) ==
    IF p \in seen \/ fuel = 0 THEN seen
    ELSE CHOOSE r \in {RingBackFrom(h, h[p].prev, s, fuel - 1) : s \in {seen \cup {p}}} :
             TRUE

(* the nodes met by following prev from p *)
RingBack(h, p) == IF p = Nil THEN {} ELSE RingBackFrom(h, p, {}, Len(h))

(* the nodes that stay members of a ring when removeNode(p) has run: the    *)
(* only node of a ring stays linked to itself                               *)
Unlink(h, linked, p) == IF h[p].next = p THEN linked ELSE linked \ {p}

-----------------------------------------------------------------------------
(* The inputs *)

Points == (0 .. GridMax) \X (0 .. GridMax)

VertexLists(n) == UNION {[1 .. k -> Points] : k \in 0 .. n}

(* the flat array of a vertex list: x, y and dm - 2 further values *)
Flatten(verts, dm) ==
    [k \in 1 .. Len(verts) * dm |->
        LET v == verts[(k - 1) \div dm + 1]
            c == (k - 1) % dm
        IN  IF c = 0 THEN v[1] ELSE IF c = 1 THEN v[2] ELSE 0]

Input(vs, hs, dm) == [data |-> Flatten(vs, dm), holes |-> hs, dim |-> dm]

(* every vertex list of the grid, no holes *)
GridInputs == {Input(vs, <<>>, 2) : vs \in VertexLists(MaxOuter)}

(* every vertex list of the lower rows of the grid, the last vertices a hole *)
StripPoints == (0 .. GridMax) \X (0 .. StripMax)

StripLists == UNION {[1 .. k -> StripPoints] : k \in 2 .. MaxOuter + MaxHole}

StripInputs ==
    UNION {{Input(vs, <<Len(vs) - nh>>, 2) : nh \in {n \in 1 .. MaxHole : n < Len(vs)}} :
              vs \in StripLists}

(* an axis-parallel square of side Side, started at any corner in either    *)
(* direction, and a hole drawn from the grid points strictly inside it      *)
SquareRing(ox, oy, r, rev) ==
    LET c == <<<<ox, oy>>, <<ox + Side, oy>>, <<ox + Side, oy + Side>>, <<ox, oy + Side>>>>
        at(k) == IF rev THEN (r + 4 - k) % 4 ELSE (r + k - 1) % 4
    IN  [k \in 1 .. 4 |-> c[at(k) + 1]]

InnerLists(ox, oy) ==
    UNION {[1 .. k -> (ox + 1 .. ox + Side - 1) \X (oy + 1 .. oy + Side - 1)] :
              k \in 1 .. MaxInner}

SquareInputs ==
    UNION {{Input(SquareRing(o[1], o[2], r, rev) \o hs, <<4>>, 2) :
               r \in 0 .. 3, rev \in BOOLEAN, hs \in InnerLists(o[1], o[2])} :
              o \in (0 .. Shift) \X (0 .. Shift)}

(* other strides: dim below 2, and a third value per vertex *)
DimInputs ==
    UNION {{Input(vs, hs, dm) :
               dm \in {0, 1, 3},
               hs \in {<<>>} \cup {<<k>> : k \in 1 .. Len(vs) - 1}} :
              vs \in VertexLists(MaxOuterDim)}

(* inputs of more than 80 vertices, for which Earcut computes the bounding   *)
(* box: a band between a lower chain of heights 0 and 1 and an upper chain  *)
(* of heights 2 and 3, each repeating a pattern, over x = 0 .. BandWidth    *)
Patterns(vals) == UNION {[1 .. k -> vals] : k \in 1 .. PatternLen}

Band(lo, hi) ==
    [k \in 1 .. 2 * (BandWidth + 1) |->
        IF k <= BandWidth + 1
        THEN <<k - 1, lo[((k - 1) % Len(lo)) + 1]>>
        ELSE LET x == 2 * (BandWidth + 1) - k
             IN  <<x, hi[(x % Len(hi)) + 1]>>]

BandInputs ==
    {Input(Band(lo, hi), <<>>, 2) : lo \in Patterns({0, 1}), hi \in Patterns({2, 3})}

(* a list of vertices given as runs <<x, y, count>> of equal vertices *)
RECURSIVE ExpandRuns(_)
ExpandRuns(runs) ==
    IF runs = <<>> THEN <<>>
    ELSE [k \in 1 .. runs[1][3] |-> <<runs[1][1], runs[1][2]>>] \o ExpandRuns(Tail(runs))

(* 81 vertices, many repeated, whose ring is split at pass 2 *)
TangledRuns ==
    <<<<1, 1, 19>>, <<3, 2, 1>>, <<2, 3, 1>>, <<3, 0, 2>>, <<0, 3, 2>>, <<4, 3, 2>>,
      <<3, 1, 1>>, <<0, 0, 1>>, <<1, 4, 22>>, <<3, 2, 1>>, <<4, 3, 1>>, <<2, 3, 2>>,
      <<0, 4, 1>>, <<0, 2, 1>>, <<1, 1, 1>>, <<3, 0, 1>>, <<4, 0, 1>>, <<0, 4, 1>>,
      <<3, 0, 1>>, <<4, 2, 1>>, <<0, 3, 1>>, <<0, 1, 1>>, <<2, 3, 1>>, <<4, 0, 1>>,
      <<3, 0, 7>>, <<1, 0, 2>>, <<4, 4, 1>>, <<2, 3, 1>>, <<3, 2, 1>>, <<2, 0, 1>>,
      <<1, 4, 1>>>>

TangledInput == Input(ExpandRuns(TangledRuns), <<>>, 2)

LargeInputs == BandInputs \cup {TangledInput}

(* the square of side Side at the origin and two holes of one vertex each,  *)
(* drawn from the grid points strictly inside it                            *)
TwoHoleInputs ==
    {Input(SquareRing(0, 0, 0, FALSE) \o <<a, b>>, <<4, 5>>, 2) :
        a \in (1 .. Side - 1) \X (1 .. Side - 1), b \in (1 .. Side - 1) \X (1 .. Side - 1)}

Inputs ==
    GridInputs \cup StripInputs \cup SquareInputs \cup DimInputs \cup LargeInputs
        \cup TwoHoleInputs

(* history: the nodes that are members of a ring, the number of nodes       *)
(* removed by filterPoints, the size of the ring handed to earcutLinked by  *)
(* Earcut, the nodes whose index was emitted, the numbers of cures, bridges *)
(* and splits, and the size of the ring at the last escalation              *)
NoGhost ==
    [linked |-> {}, filtered |-> 0, ringN |-> 0, emitted |-> {}, cures |-> 0,
     bridges |-> 0, splits |-> 0, escN |-> 0]

NoBBox == [minX |-> PInf, minY |-> PInf, invSize |-> FInt(0)]

InitWith(inp) ==
    /\ data = inp.data
    /\ holeIndices = inp.holes
    /\ dim = inp.dim
    /\ nodes = <<>>
    /\ triangles = <<>>
    /\ err = FALSE
    /\ bbox = NoBBox
    /\ pc = "Earcut"
    /\ loc = [ret |-> Nil]
    /\ stack = <<>>
    /\ ghost = NoGhost
    /\ round = 1
    /\ first = <<>>
    /\ dev = <<>>

Init == \E inp \in Inputs : InitWith(inp)

-----------------------------------------------------------------------------
(* Calls and returns. A frame keeps the label to resume at and the locals   *)
(* of the caller; the value returned is stored in the caller's `ret`.       *)
(* earcutLinked calls earcutLinked and splitEarcut as its last statement    *)
(* before returning, so those calls take over the frame of their caller.    *)

Return(stk, v) ==
    /\ pc' = stk[1].pc
    /\ loc' = [stk[1].loc EXCEPT !.ret = v]
    /\ stack' = Tail(stk)

Frame(label, locals) == [pc |-> label, loc |-> locals]

ZThreshold == 80

linkedListForwardAlways(d, start, end, dm, clockwise) == clockwise

(* line 94: whether linkedList inserts the range in forward order *)
linkedListForward(d, start, end, dm, clockwise) ==
    clockwise = (signedArea(d, start, end, dm) > 0)

CallLinkedList(start, end, clockwise, label, locals) ==
    LET fwd == linkedListForward(data, start, end, dim, clockwise)
    IN  /\ pc' = "linkedList"
        /\ loc' = [i |-> IF fwd THEN start ELSE end - dim, start |-> start,
                   end |-> end, fwd |-> fwd, last |-> Nil]
        /\ stack' = <<Frame(label, locals)>> \o stack

CallFilterPoints(start, end, label, locals, stk) ==
    IF start = Nil
    THEN /\ pc' = label
         /\ loc' = [locals EXCEPT !.ret = Nil]
         /\ stack' = stk
    ELSE /\ pc' = "filterPoints"
         /\ loc' = [p |-> start, end |-> IF end = Nil THEN start ELSE end]
         /\ stack' = <<Frame(label, locals)>> \o stk

(* line 147 and the tests of lines 159 and 252: invSize is not 0 *)
hashed == bbox.invSize[1] # 0

(* lines 141-151 with the nodes handed over: the loop starts at ear, or the *)
(* loop of indexCurve never ends                                            *)
EarcutLinkedLoop(h, ear, pass, stk) ==
    \E ic \in {IF pass # 0 /\ hashed
                THEN indexCurve(h, ear, bbox.minX[1], bbox.minY[1], bbox.invSize)
                ELSE [h |-> h, list |-> Nil, endless |-> FALSE]} :
        /\ nodes' = ic.h
        /\ stack' = stk
        /\ IF ic.endless
           THEN pc' = "endless" /\ loc' = [turn |-> 0]
           ELSE pc' = "earcutLinked" /\ loc' = [ear |-> ear, stop |-> ear, pass |-> pass]

CallEarcutLinkedPassZero(h, ear, pass, stk) ==
    IF ear = Nil
    THEN nodes' = h /\ Return(stk, Nil)
    ELSE EarcutLinkedLoop(h, ear, 0, stk)

CallEarcutLinked(h, ear, pass, stk) ==
    IF ear = Nil
    THEN nodes' = h /\ Return(stk, Nil)
    ELSE EarcutLinkedLoop(h, ear, pass, stk)

-----------------------------------------------------------------------------
(* Earcut *)

invalidDimensionBelowThree(dm) == dm < 3

(* line 35 *)
invalidDimension(dm) == dm < 2

Earcut ==
    /\ pc = "Earcut"
    /\ IF invalidDimension(dim)
       THEN /\ err' = TRUE
            /\ pc' = "done"
            /\ UNCHANGED <<loc, stack>>
       ELSE LET outerLen == IF Len(holeIndices) > 0 THEN Hole(0) * dim ELSE Len(data)
            IN  /\ err' = FALSE
                /\ CallLinkedList(0, outerLen, TRUE, "EarcutOuter",
                                  [outerLen |-> outerLen, ret |-> Nil])
    /\ UNCHANGED <<data, holeIndices, dim, nodes, triangles, bbox, ghost, round, first, dev>>

(* lines 50-85: the bounding box is computed only for large inputs *)
BBox(outerLen) ==
    IF Len(data) > ZThreshold * dim
    THEN LET is == {i \in 0 .. outerLen - 1 : i % dim = 0}
             xs == {Data(i) : i \in is}
             ys == {Data(i + 1) : i \in is}
             minX == CHOOSE v \in xs : \A w \in xs : v <= w
             maxX == CHOOSE v \in xs : \A w \in xs : v >= w
             minY == CHOOSE v \in ys : \A w \in ys : v <= w
             maxY == CHOOSE v \in ys : \A w \in ys : v >= w
             size == Max(maxX - minX, maxY - minY)
         IN  [minX |-> FInt(minX), minY |-> FInt(minY),
              invSize |-> IF size # 0 THEN FDiv(1, size) ELSE FInt(0)]
    ELSE NoBBox

(* lines 58-87: the call of earcutLinked on the merged ring *)
StartEngine(outerNode, outerLen) ==
    /\ bbox' = BBox(outerLen)
    /\ ghost' = [ghost EXCEPT !.ringN = Cardinality(Ring(nodes, outerNode)),
                              !.escN = 0]
    /\ CallEarcutLinked(nodes, outerNode, 0, <<Frame("done", [ret |-> Nil])>>)

EarcutOuter ==
    /\ pc = "EarcutOuter"
    /\ IF loc.ret = Nil
       THEN /\ pc' = "done"
            /\ UNCHANGED <<loc, stack, nodes, bbox, ghost>>
       ELSE IF Len(holeIndices) > 0
       THEN /\ pc' = "eliminateHoles"
            /\ loc' = [outerLen |-> loc.outerLen, outerNode |-> loc.ret,
                       queue |-> <<>>, i |-> 0, ret |-> Nil]
            /\ UNCHANGED <<stack, nodes, bbox, ghost>>
       ELSE StartEngine(loc.ret, loc.outerLen)
    /\ UNCHANGED <<data, holeIndices, dim, triangles, err, round, first, dev>>

-----------------------------------------------------------------------------
(* linkedList *)

InsertStep ==
    /\ pc = "linkedList"
    /\ IF loc.fwd THEN loc.i < loc.end ELSE loc.i >= loc.start
    /\ nodes' = insertNode(nodes, loc.i, Data(loc.i), Data(loc.i + 1), loc.last)
    /\ loc' = [loc EXCEPT !.last = Len(nodes) + 1,
                          !.i = IF loc.fwd THEN loc.i + dim ELSE loc.i - dim]
    /\ ghost' = [ghost EXCEPT !.linked = @ \cup {Len(nodes) + 1}]
    /\ UNCHANGED <<data, holeIndices, dim, triangles, err, bbox, pc, stack, round,
                   first, dev>>

LinkedListClose ==
    /\ pc = "linkedList"
    /\ ~(IF loc.fwd THEN loc.i < loc.end ELSE loc.i >= loc.start)
    /\ IF loc.last # Nil /\ equals(nodes, loc.last, nodes[loc.last].next)
       THEN /\ nodes' = removeNode(nodes, loc.last)
            /\ ghost' = [ghost EXCEPT !.linked = Unlink(nodes, @, loc.last)]
            /\ Return(stack, nodes'[loc.last].next)
       ELSE /\ Return(stack, loc.last)
            /\ UNCHANGED <<nodes, ghost>>
    /\ UNCHANGED <<data, holeIndices, dim, triangles, err, bbox, round, first, dev>>

-----------------------------------------------------------------------------
(* filterPoints: one iteration of its loop per step *)

filterPointsTest(h, p) ==
    /\ ~h[p].steiner
    /\ (equals(h, p, h[p].next) \/ area(h, h[p].prev, p, h[p].next) = 0)

FilterRemove ==
    /\ pc = "filterPoints"
    /\ filterPointsTest(nodes, loc.p)
    /\ nodes' = removeNode(nodes, loc.p)
    /\ ghost' = [ghost EXCEPT !.linked = Unlink(nodes, @, loc.p),
                              !.filtered = @ + 1]
    /\ LET p1 == nodes'[loc.p].prev
       IN  IF p1 = nodes'[p1].next
           THEN Return(stack, p1)
           ELSE /\ loc' = [loc EXCEPT !.p = p1, !.end = p1]
                /\ UNCHANGED <<pc, stack>>
    /\ UNCHANGED <<data, holeIndices, dim, triangles, err, bbox, round, first, dev>>

FilterAdvance ==
    /\ pc = "filterPoints"
    /\ ~filterPointsTest(nodes, loc.p)
    /\ LET p1 == nodes[loc.p].next
       IN  IF p1 = loc.end
           THEN Return(stack, loc.end)
           ELSE /\ loc' = [loc EXCEPT !.p = p1]
                /\ UNCHANGED <<pc, stack>>
    /\ UNCHANGED <<data, holeIndices, dim, nodes, triangles, err, bbox, ghost, round,
                   first, dev>>

-----------------------------------------------------------------------------
(* earcutLinked: one iteration of its loop per step *)

(* lines 159-163: "ear", "none", or "endless" *)
earTestOutcome(h, ear) ==
    IF hashed
    THEN isEarHashed(h, ear, bbox.minX[1], bbox.minY[1], bbox.invSize)
    ELSE IF isEar(h, ear) THEN "ear" ELSE "none"

earTest(h, ear) == earTestOutcome(h, ear) = "ear"

earTriangleRaw(h, ear, dm) == <<h[h[ear].prev].i, h[ear].i, h[h[ear].next].i>>

earTriangleShort(h, ear, dm) == <<h[h[ear].prev].i \div dm, h[ear].i \div dm>>

(* line 166: the indices appended for the ear *)
earTriangle(h, ear, dm) ==
    <<h[h[ear].prev].i \div dm, h[ear].i \div dm, h[h[ear].next].i \div dm>>

EarLoopExit ==
    /\ pc = "earcutLinked"
    /\ nodes[loc.ear].prev = nodes[loc.ear].next
    /\ Return(stack, Nil)
    /\ UNCHANGED <<data, holeIndices, dim, nodes, triangles, err, bbox, ghost, round,
                   first, dev>>

EarCut ==
    /\ pc = "earcutLinked"
    /\ nodes[loc.ear].prev # nodes[loc.ear].next
    /\ earTest(nodes, loc.ear)
    /\ LET prev == nodes[loc.ear].prev
           next == nodes[loc.ear].next
       IN  /\ triangles' = triangles \o earTriangle(nodes, loc.ear, dim)
           /\ nodes' = removeNode(nodes, loc.ear)
           /\ loc' = [loc EXCEPT !.ear = nodes'[next].next, !.stop = nodes'[next].next]
           /\ ghost' = [ghost EXCEPT !.linked = Unlink(nodes, @, loc.ear),
                                     !.emitted = @ \cup {prev, loc.ear, next}]
    /\ UNCHANGED <<data, holeIndices, dim, err, bbox, pc, stack, round, first, dev>>

(* the candidate is no ear: what the loop does next *)
NoEar(pass, atStop) ==
    /\ pc = "earcutLinked"
    /\ nodes[loc.ear].prev # nodes[loc.ear].next
    /\ earTestOutcome(nodes, loc.ear) = "none"
    /\ (nodes[loc.ear].next = loc.stop) = atStop
    /\ atStop => loc.pass = pass

(* the ear test never returns *)
EarTestEndless ==
    /\ pc = "earcutLinked"
    /\ nodes[loc.ear].prev # nodes[loc.ear].next
    /\ earTestOutcome(nodes, loc.ear) = "endless"
    /\ pc' = "endless"
    /\ loc' = [turn |-> 0]
    /\ UNCHANGED <<data, holeIndices, dim, nodes, triangles, err, bbox, stack, ghost,
                   round, first, dev>>

(* a loop that never ends takes one more turn *)
Endless ==
    /\ pc = "endless"
    /\ loc' = [turn |-> 1 - loc.turn]
    /\ UNCHANGED <<data, holeIndices, dim, nodes, triangles, err, bbox, pc, stack,
                   ghost, round, first, dev>>

EarAdvance ==
    /\ NoEar(0, FALSE)
    /\ loc' = [loc EXCEPT !.ear = nodes[loc.ear].next]
    /\ UNCHANGED <<data, holeIndices, dim, nodes, triangles, err, bbox, pc, stack,
                   ghost, round, first, dev>>

RingSize(h, p) == Cardinality(Ring(h, p))

EscalateFilter ==
    /\ NoEar(0, TRUE)
    /\ CallFilterPoints(nodes[loc.ear].next, Nil, "earcutFiltered", [ret |-> Nil], stack)
    /\ ghost' = [ghost EXCEPT !.escN = RingSize(nodes, loc.ear)]
    /\ UNCHANGED <<data, holeIndices, dim, nodes, triangles, err, bbox, round, first,
                   dev>>

EarcutFiltered ==
    /\ pc = "earcutFiltered"
    /\ CallEarcutLinked(nodes, loc.ret, 1, stack)
    /\ UNCHANGED <<data, holeIndices, dim, triangles, err, bbox, ghost, round, first,
                   dev>>

EscalateCure ==
    /\ NoEar(1, TRUE)
    /\ pc' = "cureLocalIntersections"
    /\ loc' = [p |-> nodes[loc.ear].next, start |-> nodes[loc.ear].next]
    /\ ghost' = [ghost EXCEPT !.escN = RingSize(nodes, loc.ear)]
    /\ UNCHANGED <<data, holeIndices, dim, nodes, triangles, err, bbox, stack, round,
                   first, dev>>

-----------------------------------------------------------------------------
(* cureLocalIntersections: one iteration of its loop per step; its result   *)
(* goes to earcutLinked at pass 2                                           *)

(* line 306: the indices appended for the cured intersection *)
cureTriangle(h, p, dm) ==
    <<h[h[p].prev].i \div dm, h[p].i \div dm, h[h[h[p].next].next].i \div dm>>

cureTest(h, p) ==
    LET a == h[p].prev
        b == h[h[p].next].next
    IN  /\ ~equals(h, a, b)
        /\ intersects(h, a, p, h[p].next, b)
        /\ locallyInside(h, a, b)
        /\ locallyInside(h, b, a)

CureCut ==
    /\ pc = "cureLocalIntersections"
    /\ cureTest(nodes, loc.p)
    /\ \E h1 \in {removeNode(nodes, loc.p)} : \E h2 \in {removeNode(h1, h1[loc.p].next)} :
       LET p == loc.p
           a == nodes[p].prev
           b == nodes[nodes[p].next].next
           p1 == h2[b].next
       IN  /\ triangles' = triangles \o cureTriangle(nodes, p, dim)
           /\ ghost' = [ghost EXCEPT
                          !.linked = Unlink(h1, Unlink(nodes, @, p), h1[p].next),
                          !.emitted = @ \cup {a, p, b},
                          !.cures = @ + 1]
           /\ IF p1 = b
              THEN CallEarcutLinked(h2, p1, 2, stack)
              ELSE /\ nodes' = h2
                   /\ loc' = [p |-> p1, start |-> b]
                   /\ UNCHANGED <<pc, stack>>
    /\ UNCHANGED <<data, holeIndices, dim, err, bbox, round, first, dev>>

CureAdvance ==
    /\ pc = "cureLocalIntersections"
    /\ ~cureTest(nodes, loc.p)
    /\ LET p1 == nodes[loc.p].next
       IN  IF p1 = loc.start
           THEN CallEarcutLinked(nodes, p1, 2, stack)
           ELSE /\ loc' = [loc EXCEPT !.p = p1]
                /\ UNCHANGED <<pc, stack, nodes>>
    /\ UNCHANGED <<data, holeIndices, dim, triangles, err, bbox, ghost, round, first,
                   dev>>

-----------------------------------------------------------------------------
(* splitEarcut *)

splitEarcutDiagonal(h, start) ==
    splitEarcutFind(h, start, start, h[h[start].next].next)

EscalateSplit ==
    /\ NoEar(2, TRUE)
    /\ \E ab \in {splitEarcutDiagonal(nodes, nodes[loc.ear].next)} :
       LET c == Len(nodes) + 2
       IN  /\ ab[1] # Nil
           /\ nodes' = splitPolygon(nodes, ab[1], ab[2])
           /\ ghost' = [ghost EXCEPT !.linked = @ \cup {Len(nodes) + 1, Len(nodes) + 2},
                                     !.splits = @ + 1,
                                     !.escN = RingSize(nodes, loc.ear)]
           /\ CallFilterPoints(ab[1], nodes'[ab[1]].next, "splitFilteredA",
                               [c |-> c, ret |-> Nil], stack)
    /\ UNCHANGED <<data, holeIndices, dim, triangles, err, bbox, round, first, dev>>

SplitFilteredA ==
    /\ pc = "splitFilteredA"
    /\ CallFilterPoints(loc.c, nodes[loc.c].next, "splitFilteredC",
                        [a |-> loc.ret, ret |-> Nil], stack)
    /\ UNCHANGED <<data, holeIndices, dim, nodes, triangles, err, bbox, ghost, round,
                   first, dev>>

SplitFilteredC ==
    /\ pc = "splitFilteredC"
    /\ CallEarcutLinked(nodes, loc.a, 0,
                        <<Frame("splitSecond",
                                [c |-> loc.ret, n |-> ghost.escN, ret |-> Nil])>> \o stack)
    /\ UNCHANGED <<data, holeIndices, dim, triangles, err, bbox, ghost, round, first,
                   dev>>

SplitSecond ==
    /\ pc = "splitSecond"
    /\ CallEarcutLinked(nodes, loc.c, 0, stack)
    /\ UNCHANGED <<data, holeIndices, dim, triangles, err, bbox, ghost, round, first,
                   dev>>

(* no valid diagonal: splitEarcut and earcutLinked return *)
EscalateAbandon ==
    /\ NoEar(2, TRUE)
    /\ splitEarcutDiagonal(nodes, nodes[loc.ear].next)[1] = Nil
    /\ Return(stack, Nil)
    /\ UNCHANGED <<data, holeIndices, dim, nodes, triangles, err, bbox, ghost, round,
                   first, dev>>

-----------------------------------------------------------------------------
(* eliminateHoles and eliminateHole *)

(* sort.Sort orders the queue by Less and promises nothing about the order  *)
(* of elements that compare equal                                           *)
SortOutcomes(h, q) ==
    {r \in {[k \in 1 .. Len(q) |-> q[f[k]]] : f \in Permutations(1 .. Len(q))} :
        \A k \in 1 .. Len(r) - 1 : ~(h[r[k + 1]].x < h[r[k]].x)}

HoleListCall ==
    /\ pc = "eliminateHoles"
    /\ LET l == Len(holeIndices)
           start == Hole(loc.i) * dim
           end == IF loc.i < l - 1 THEN Hole(loc.i + 1) * dim ELSE Len(data)
       IN  CallLinkedList(start, end, FALSE, "holeList", loc)
    /\ UNCHANGED <<data, holeIndices, dim, nodes, triangles, err, bbox, ghost, round,
                   first, dev>>

HoleListQueued ==
    /\ pc = "holeList"
    /\ LET list == loc.ret
           h1 == IF list = nodes[list].next
                 THEN [nodes EXCEPT ![list].steiner = TRUE]
                 ELSE nodes
           queue == Append(loc.queue, getLeftmost(nodes, list))
       IN  /\ nodes' = h1
           /\ IF loc.i + 1 < Len(holeIndices)
              THEN /\ pc' = "eliminateHoles"
                   /\ loc' = [loc EXCEPT !.queue = queue, !.i = loc.i + 1, !.ret = Nil]
              ELSE /\ pc' = "eliminateHole"
                   /\ \E sorted \in SortOutcomes(h1, queue) :
                         loc' = [loc EXCEPT !.queue = sorted, !.i = 0, !.ret = Nil]
    /\ UNCHANGED <<data, holeIndices, dim, triangles, err, bbox, stack, ghost, round,
                   first, dev>>

HoleBridged ==
    /\ pc = "eliminateHole"
    /\ loc.i < Len(loc.queue)
    /\ \E bridge \in {findHoleBridge(nodes, loc.queue[loc.i + 1], loc.outerNode)} :
       LET hole == loc.queue[loc.i + 1]
           b == Len(nodes) + 2
       IN  /\ bridge # Nil
           /\ nodes' = splitPolygon(nodes, bridge, hole)
           /\ ghost' = [ghost EXCEPT !.linked = @ \cup {Len(nodes) + 1, Len(nodes) + 2},
                                     !.bridges = @ + 1]
           /\ CallFilterPoints(b, nodes'[b].next, "holeFiltered", loc, stack)
    /\ UNCHANGED <<data, holeIndices, dim, triangles, err, bbox, round, first, dev>>

(* eliminateHole has returned: line 385 filters from the outer node *)
OuterFilter ==
    CallFilterPoints(loc.outerNode, nodes[loc.outerNode].next, "outerFiltered", loc,
                     stack)

HoleNotBridged ==
    /\ pc = "eliminateHole"
    /\ loc.i < Len(loc.queue)
    /\ findHoleBridge(nodes, loc.queue[loc.i + 1], loc.outerNode) = Nil
    /\ OuterFilter
    /\ UNCHANGED <<data, holeIndices, dim, nodes, triangles, err, bbox, ghost, round,
                   first, dev>>

HoleFiltered ==
    /\ pc = "holeFiltered"
    /\ OuterFilter
    /\ UNCHANGED <<data, holeIndices, dim, nodes, triangles, err, bbox, ghost, round,
                   first, dev>>

OuterFiltered ==
    /\ pc = "outerFiltered"
    /\ pc' = "eliminateHole"
    /\ loc' = [loc EXCEPT !.outerNode = loc.ret, !.i = loc.i + 1, !.ret = Nil]
    /\ UNCHANGED <<data, holeIndices, dim, nodes, triangles, err, bbox, stack, ghost,
                   round, first, dev>>

EliminateHolesReturn ==
    /\ pc = "eliminateHole"
    /\ loc.i >= Len(loc.queue)
    /\ StartEngine(loc.outerNode, loc.outerLen)
    /\ UNCHANGED <<data, holeIndices, dim, triangles, err, round, first, dev>>

-----------------------------------------------------------------------------

EngineNext ==
    \/ Earcut
    \/ EarcutOuter
    \/ InsertStep
    \/ LinkedListClose
    \/ FilterRemove
    \/ FilterAdvance
    \/ EarLoopExit
    \/ EarCut
    \/ EarTestEndless
    \/ Endless
    \/ EarAdvance
    \/ EscalateFilter
    \/ EarcutFiltered
    \/ EscalateCure
    \/ CureCut
    \/ CureAdvance
    \/ EscalateSplit
    \/ SplitFilteredA
    \/ SplitFilteredC
    \/ SplitSecond
    \/ EscalateAbandon

HolesNext ==
    \/ HoleListCall
    \/ HoleListQueued
    \/ HoleBridged
    \/ HoleNotBridged
    \/ HoleFiltered
    \/ OuterFiltered
    \/ EliminateHolesReturn

Next == EngineNext \/ HolesNext

Spec == Init /\ [][Next]_vars

-----------------------------------------------------------------------------
(* Deviation, as a function of its arguments: the result is a float *)

RECURSIVE holesAreaFrom(_, _, _, _, _)
holesAreaFrom(d, hs, dm, i, sum) ==
    IF i < Len(hs)
    THEN LET start == hs[i + 1] * dm
             end == IF i < Len(hs) - 1 THEN hs[i + 2] * dm ELSE Len(d)
         IN  holesAreaFrom(d, hs, dm, i + 1, sum + Abs(signedArea(d, start, end, dm)))
    ELSE sum

RECURSIVE trianglesAreaFrom(_, _, _, _, _)
trianglesAreaFrom(d, dm, t, i, sum) ==
    IF i < Len(t)
    THEN LET a == t[i + 1] * dm
             b == t[i + 2] * dm
             c == t[i + 3] * dm
         IN  trianglesAreaFrom(d, dm, t, i + 3,
                 sum + Abs((d[a + 1] - d[c + 1]) * (d[b + 2] - d[a + 2])
                           - (d[a + 1] - d[b + 1]) * (d[c + 2] - d[a + 2])))
    ELSE sum

polygonArea(d, hs, dm) ==
    LET outerLen == IF Len(hs) > 0 THEN hs[1] * dm ELSE Len(d)
    IN  Abs(signedArea(d, 0, outerLen, dm)) - holesAreaFrom(d, hs, dm, 0, 0)

(* the polygon area taken as | signedArea(outer) - sum |signedArea(hole)| | *)
DeviationOuterSigned(d, hs, dm, t) ==
    LET outerLen == IF Len(hs) > 0 THEN hs[1] * dm ELSE Len(d)
        P == Abs(signedArea(d, 0, outerLen, dm) - holesAreaFrom(d, hs, dm, 0, 0))
        T == trianglesAreaFrom(d, dm, t, 0, 0)
    IN  IF P = 0 /\ T = 0 THEN FInt(0)
        ELSE IF P = 0 THEN PInf
        ELSE FDiv(Abs(T - P), P)

Deviation(d, hs, dm, t) ==
    LET P == polygonArea(d, hs, dm)
        T == trianglesAreaFrom(d, dm, t, 0, 0)
    IN  IF P = 0 /\ T = 0 THEN FInt(0)
        ELSE IF P = 0 THEN PInf
        ELSE FDiv(Abs(T - P), Abs(P))

-----------------------------------------------------------------------------
(* Polygons as the claims speak of them: the contours of the input, and     *)
(* what makes a contour simple and a hole lie inside another contour        *)

VertexCount == Len(data) \div dim

Vertex(k) == <<Data(k * dim), Data(k * dim + 1)>>

(* the vertices s .. e - 1, without a closing vertex that repeats the first *)
Contour(s, e) ==
    LET vs == [k \in 1 .. e - s |-> Vertex(s + k - 1)]
    IN  IF Len(vs) > 1 /\ vs[1] = vs[Len(vs)] THEN SubSeq(vs, 1, Len(vs) - 1) ELSE vs

OuterContour == Contour(0, IF Len(holeIndices) > 0 THEN Hole(0) ELSE VertexCount)

HoleContour(i) ==
    Contour(Hole(i), IF i < Len(holeIndices) - 1 THEN Hole(i + 1) ELSE VertexCount)

Cross(o, a, b) == (a[1] - o[1]) * (b[2] - o[2]) - (a[2] - o[2]) * (b[1] - o[1])

OnSegment(a, b, p) ==
    /\ Cross(a, b, p) = 0
    /\ Min(a[1], b[1]) <= p[1] /\ p[1] <= Max(a[1], b[1])
    /\ Min(a[2], b[2]) <= p[2] /\ p[2] <= Max(a[2], b[2])

SegmentsMeet(a, b, c, d) ==
    \/ /\ Sgn(Cross(a, b, c)) * Sgn(Cross(a, b, d)) < 0
       /\ Sgn(Cross(c, d, a)) * Sgn(Cross(c, d, b)) < 0
    \/ OnSegment(a, b, c) \/ OnSegment(a, b, d)
    \/ OnSegment(c, d, a) \/ OnSegment(c, d, b)

EdgeOf(c, k) == <<c[k], c[(k % Len(c)) + 1]>>

SimpleContour(c) ==
    /\ Len(c) >= 3
    /\ \A j, k \in 1 .. Len(c) : j < k => c[j] # c[k]
    /\ \A j, k \in 1 .. Len(c) :
          j < k =>
             LET e == EdgeOf(c, j)
                 f == EdgeOf(c, k)
             IN  IF k = j + 1
                 THEN ~OnSegment(e[1], e[2], f[2]) /\ ~OnSegment(f[1], f[2], e[1])
                 ELSE IF j = 1 /\ k = Len(c)
                 THEN ~OnSegment(e[1], e[2], f[1]) /\ ~OnSegment(f[1], f[2], e[2])
                 ELSE ~SegmentsMeet(e[1], e[2], f[1], f[2])

(* the edge a-b is crossed by the ray from p towards +x *)
RayCrosses(a, b, p) ==
    /\ (a[2] > p[2]) # (b[2] > p[2])
    /\ IF b[2] > a[2]
       THEN (p[1] - a[1]) * (b[2] - a[2]) < (b[1] - a[1]) * (p[2] - a[2])
       ELSE (p[1] - a[1]) * (b[2] - a[2]) > (b[1] - a[1]) * (p[2] - a[2])

StrictlyInside(c, p) ==
    /\ \A k \in 1 .. Len(c) : ~OnSegment(EdgeOf(c, k)[1], EdgeOf(c, k)[2], p)
    /\ Cardinality({k \in 1 .. Len(c) :
                      RayCrosses(EdgeOf(c, k)[1], EdgeOf(c, k)[2], p)}) % 2 = 1

ContoursMeet(c, o) ==
    \E j \in 1 .. Len(c), k \in 1 .. Len(o) :
        SegmentsMeet(EdgeOf(c, j)[1], EdgeOf(c, j)[2], EdgeOf(o, k)[1], EdgeOf(o, k)[2])

LiesInside(c, o) ==
    /\ \A k \in 1 .. Len(c) : StrictlyInside(o, c[k])
    /\ ~ContoursMeet(c, o)

SimpleOuter == dim >= 2 /\ Len(data) % dim = 0 /\ SimpleContour(OuterContour)

(* a simple outer ring, every hole a simple contour inside it, the holes    *)
(* apart from each other                                                    *)
ValidPolygon ==
    /\ SimpleOuter
    /\ \A i \in 0 .. Len(holeIndices) - 1 :
          /\ SimpleContour(HoleContour(i))
          /\ LiesInside(HoleContour(i), OuterContour)
    /\ \A i, j \in 0 .. Len(holeIndices) - 1 :
          i < j => /\ ~ContoursMeet(HoleContour(i), HoleContour(j))
                   /\ ~StrictlyInside(HoleContour(i), HoleContour(j)[1])
                   /\ ~StrictlyInside(HoleContour(j), HoleContour(i)[1])

Returned == pc = "done" /\ ~err

-----------------------------------------------------------------------------
(* C1: for every valid simple polygon, with or without holes, the triangles  *)
(* Earcut returns have the area of the outer ring less the areas of the      *)
(* holes: Deviation of the result is exactly 0 on integer coordinates.       *)
C1_DeviationZero ==
    (Returned /\ ValidPolygon)
        => FEq(Deviation(data, holeIndices, dim, triangles), FInt(0))

-----------------------------------------------------------------------------
(* C2: the number of indices in triangles is a multiple of 3 in every state  *)
(* of a run, and so when Earcut returns: indices are appended three at a     *)
(* time, by the ear cut and by the cure of a local intersection.             *)
C2_MultipleOfThree == Len(triangles) % 3 = 0

(* a run that has returned triangles of both origins *)
C2_Witness ==
    /\ Returned
    /\ ghost.cures > 0
    /\ Len(triangles) > 3 * ghost.cures

-----------------------------------------------------------------------------
(* C3: with dim < 2 Earcut returns at once with the error and no triangles, *)
(* no node having been created; with dim >= 2 the error is never set.       *)
C3_InvalidDimension ==
    /\ dim < 2 => /\ pc \in {"Earcut", "done"}
                  /\ pc = "done" => err
                  /\ nodes = <<>>
                  /\ triangles = <<>>
    /\ dim >= 2 => ~err

C3_Witness == pc = "done" /\ err /\ dim = 1 /\ Len(data) > 0 /\ nodes = <<>>

-----------------------------------------------------------------------------
(* C4: with dim >= 2, an input without vertices, or one whose vertices all   *)
(* lie on one line (fewer than three distinct vertices included), makes      *)
(* Earcut return no triangles and no error.                                  *)
AllCollinear ==
    \A i, j, k \in 0 .. VertexCount - 1 : Cross(Vertex(i), Vertex(j), Vertex(k)) = 0

C4_DegenerateEmpty ==
    (pc = "done" /\ dim >= 2 /\ AllCollinear) => (triangles = <<>> /\ ~err)

(* four or more collinear vertices and a hole among them, some filtered out  *)
C4_Witness ==
    /\ Returned
    /\ dim >= 2
    /\ AllCollinear
    /\ VertexCount >= 4
    /\ Len(holeIndices) > 0
    /\ ghost.filtered > 0
    /\ triangles = <<>>

-----------------------------------------------------------------------------
(* C6: every index in triangles is a vertex of the input, 0 <= index <       *)
(* len(data)/dim, and is i/dim of a node whose x and y are data[i] and       *)
(* data[i+1]; every node, the copies made by splitPolygon included, carries  *)
(* the coordinates of the vertex its i names.                                *)
NodeNamesVertex(n) ==
    /\ nodes[n].i % dim = 0
    /\ 0 <= nodes[n].i /\ nodes[n].i + 1 < Len(data)
    /\ nodes[n].x = Data(nodes[n].i)
    /\ nodes[n].y = Data(nodes[n].i + 1)

C6_IndicesAreVertices ==
    dim >= 2 =>
        /\ \A n \in 1 .. Len(nodes) : NodeNamesVertex(n)
        /\ \A k \in 1 .. Len(triangles) :
              /\ 0 <= triangles[k] /\ triangles[k] < VertexCount
              /\ \E n \in ghost.emitted : nodes[n].i \div dim = triangles[k]

(* a copy made by a hole bridge was emitted, after filtering and a split *)
C6_Witness ==
    /\ Returned
    /\ \E n \in ghost.emitted : n > VertexCount
    /\ ghost.bridges > 0
    /\ ghost.filtered > 0

-----------------------------------------------------------------------------
(* C8: a simple polygon whose merged ring has n >= 3 nodes and that loses no *)
(* node to filterPoints is returned as exactly n - 2 triangles.              *)
C8_TriangleCount ==
    (Returned /\ ValidPolygon /\ ghost.ringN >= 3 /\ ghost.filtered = 0)
        => Len(triangles) = 3 * (ghost.ringN - 2)

(* a square and a triangular hole bridged into it: 4 + 3 + 2 nodes *)
C8_Witness ==
    /\ Returned
    /\ ValidPolygon
    /\ ghost.filtered = 0
    /\ ghost.bridges = 1
    /\ ghost.ringN = Len(OuterContour) + Len(HoleContour(0)) + 2
    /\ Len(triangles) = 3 * (ghost.ringN - 2)

-----------------------------------------------------------------------------
(* C10: in every reachable state every node that is a member of a ring has   *)
(* p.next.prev = p and p.prev.next = p, following next from p comes back to  *)
(* p and meets the nodes that following prev meets.                          *)
Circular(p) ==
    /\ nodes[nodes[p].next].prev = p
    /\ nodes[nodes[p].prev].next = p
    /\ p \in Ring(nodes, nodes[p].next)
    /\ Ring(nodes, p) = RingBack(nodes, p)

C10_RingCircular == \A p \in ghost.linked : Circular(p)

-----------------------------------------------------------------------------
(* C11: whenever earcutLinked applies the accelerated test (invSize # 0, at  *)
(* any pass), isEarHashed returns what isEar returns on the same ring and    *)
(* candidate: true iff the triangle of the candidate is convex (area < 0)    *)
(* and no other node of the ring lies in it while being non-convex itself.   *)
C11_HashedAgreesWithPlain ==
    (pc = "earcutLinked" /\ hashed /\ nodes[loc.ear].prev # nodes[loc.ear].next)
        => earTestOutcome(nodes, loc.ear) = (IF isEar(nodes, loc.ear) THEN "ear" ELSE "none")

-----------------------------------------------------------------------------
(* the loop of earcutLinked is left for one of its fallbacks (lines 178-199) *)
Escalates ==
    /\ pc = "earcutLinked"
    /\ nodes[loc.ear].prev # nodes[loc.ear].next
    /\ pc' \notin {"earcutLinked", "endless"}

(* C12: earcutLinked escalates only when the walk is back at the stop node   *)
(* and the test has failed for every node left in the ring since the last    *)
(* cut; the pass alone selects the fallback and no tier is skipped: pass 0   *)
(* calls filterPoints and goes on at pass 1, pass 1 runs                     *)
(* cureLocalIntersections and goes on at pass 2, pass 2 runs splitEarcut,    *)
(* which calls earcutLinked at pass 0 on each of the two halves, or returns  *)
(* with nothing appended when the ring has no valid diagonal.                *)
C12_Step ==
    /\ Escalates =>
          /\ nodes[loc.ear].next = loc.stop
          /\ \A q \in Ring(nodes, loc.ear) : earTestOutcome(nodes, q) = "none"
          /\ loc.pass \in 0 .. 2
          /\ loc.pass = 0 =>
                /\ pc' = "filterPoints" /\ stack'[1].pc = "earcutFiltered"
                /\ loc'.p = loc.stop /\ nodes' = nodes /\ triangles' = triangles
          /\ loc.pass = 1 =>
                /\ pc' = "cureLocalIntersections" /\ stack' = stack
                /\ loc'.start = loc.stop /\ nodes' = nodes /\ triangles' = triangles
          /\ loc.pass = 2 =>
                /\ triangles' = triangles
                /\ \E ab \in {splitEarcutDiagonal(nodes, loc.stop)} :
                      IF ab[1] # Nil
                      THEN /\ pc' = "filterPoints" /\ stack'[1].pc = "splitFilteredA"
                           /\ ghost'.splits = ghost.splits + 1
                      ELSE /\ pc' = stack[1].pc /\ stack' = Tail(stack)
                           /\ nodes' = nodes
    /\ pc = "earcutFiltered" =>
          /\ pc' \in {"earcutLinked", "endless"}
          /\ pc' = "earcutLinked" => loc'.pass = 1 /\ loc'.ear = loc.ret
    /\ (pc = "cureLocalIntersections" /\ pc' # "cureLocalIntersections") =>
          /\ pc' \in {"earcutLinked", "endless"}
          /\ pc' = "earcutLinked" => loc'.pass = 2
    /\ pc = "splitFilteredA" => pc' = "filterPoints" /\ stack'[1].pc = "splitFilteredC"
    /\ pc = "splitFilteredC" =>
          /\ pc' = "earcutLinked" /\ loc'.pass = 0 /\ loc'.ear = loc.a
          /\ stack'[1].pc = "splitSecond" /\ stack'[1].loc.c = loc.ret
    /\ pc = "splitSecond" =>
          pc' = "earcutLinked" /\ loc'.pass = 0 /\ loc'.ear = loc.c

C12_EscalationOrder == [][C12_Step]_vars

(* both halves of a split ring are under way: the first has been through     *)
(* earcutLinked, the second is about to be handed to it at pass 0            *)
C12_Witness == pc = "splitSecond" /\ ghost.splits > 0 /\ Len(triangles) > 0

-----------------------------------------------------------------------------
(* the edge (p, p.next) straddles the line y = hy as line 413 asks *)
Straddles(p, hy) ==
    /\ hy <= nodes[p].y
    /\ hy >= nodes[nodes[p].next].y
    /\ nodes[nodes[p].next].y # nodes[p].y

(* x-coordinate of the point of the edge (p, p.next) at height hy *)
CrossingX(p, hy) ==
    LET pn == nodes[p].next
    IN  FAddInt(nodes[p].x,
                FDiv((hy - nodes[p].y) * (nodes[pn].x - nodes[p].x),
                     nodes[pn].y - nodes[p].y))

(* C13: when findHoleBridge is called, for every edge (p, p.next) of the     *)
(* outer ring that straddles the line through the hole's leftmost point      *)
(* (hx, hy) the x it computes is the x at which the edge crosses y = hy,     *)
(* p.x + (hy - p.y) * (p.next.x - p.x) / (p.next.y - p.y); the qx the first  *)
(* loop ends with is the largest crossing not beyond hx, and m is the        *)
(* endpoint of lesser x of an edge that crosses there.                       *)
C13_BridgeCrossing ==
    (pc = "eliminateHole" /\ loc.i < Len(loc.queue)) =>
        LET hole == loc.queue[loc.i + 1]
            hx == nodes[hole].x
            hy == nodes[hole].y
            edges == {p \in Ring(nodes, loc.outerNode) : Straddles(p, hy)}
            seg == findHoleBridgeSegment(nodes, hx, hy, loc.outerNode, loc.outerNode,
                                         [found |-> FALSE, qx |-> NInf, m |-> Nil])
        IN  /\ \A p \in edges : FEq(bridgeX(nodes, p, hy), CrossingX(p, hy))
            /\ ~seg.found =>
                  /\ \A p \in edges :
                        FLe(CrossingX(p, hy), FInt(hx)) => FLe(CrossingX(p, hy), seg.qx)
                  /\ seg.m # Nil =>
                        \E p \in edges :
                            /\ FEq(CrossingX(p, hy), seg.qx)
                            /\ seg.m \in {p, nodes[p].next}
                            /\ nodes[seg.m].x <= nodes[p].x
                            /\ nodes[seg.m].x <= nodes[nodes[p].next].x

-----------------------------------------------------------------------------
(* C14: the queue eliminateHoles works through after sort.Sort holds the     *)
(* holes in ascending order of the x of their leftmost nodes, and holes of   *)
(* equal leftmost x in the order in which holeIndices declares them; the     *)
(* holes are merged in the order of the queue.                               *)
C14_QueueOrder ==
    (pc = "eliminateHole") =>
        \A j \in 1 .. Len(loc.queue) : \A k \in j + 1 .. Len(loc.queue) :
            /\ nodes[loc.queue[j]].x <= nodes[loc.queue[k]].x
            /\ nodes[loc.queue[j]].x = nodes[loc.queue[k]].x
                  => nodes[loc.queue[j]].i < nodes[loc.queue[k]].i

-----------------------------------------------------------------------------
(* the nodes of the holes that eliminateHoles has not come to yet *)
HolesAhead == UNION {Ring(nodes, loc.queue[k]) : k \in loc.i + 2 .. Len(loc.queue)}

(* C16: when eliminateHole has bridged a hole and its filterPoints(b,        *)
(* b.next) has returned, the outerNode that eliminateHoles holds, and hands  *)
(* to filterPoints and to the next eliminateHole, is a node of the merged    *)
(* ring: outerNode.next.prev = outerNode = outerNode.prev.next, and every    *)
(* linked node of the outer ring and of the holes bridged so far is met by   *)
(* following next from outerNode.                                            *)
C16_HandleLinked ==
    pc = "holeFiltered" =>
        /\ loc.outerNode \in ghost.linked
        /\ nodes[nodes[loc.outerNode].next].prev = loc.outerNode
        /\ nodes[nodes[loc.outerNode].prev].next = loc.outerNode
        /\ (ghost.linked \ HolesAhead) \subseteq Ring(nodes, loc.outerNode)

-----------------------------------------------------------------------------
(* The program is one thread that takes its next step whenever it has one *)
LiveSpec == Spec /\ WF_vars(Next)

(* what the calls of earcutLinked made by an escalation are handed: after    *)
(* filterPoints (pass 1) and after cureLocalIntersections (pass 2) a ring no *)
(* larger than the ring that had no ear, after splitPolygon (pass 0, twice)  *)
(* rings smaller than the ring that was split                                *)
EscalationStep ==
    /\ (pc = "earcutFiltered" /\ pc' = "earcutLinked")
          => loc'.pass = 1 /\ RingSize(nodes', loc'.ear) <= ghost.escN
    /\ (pc = "cureLocalIntersections" /\ pc' = "earcutLinked")
          => loc'.pass = 2 /\ RingSize(nodes', loc'.ear) <= ghost.escN
    /\ (pc = "splitFilteredC" /\ pc' = "earcutLinked")
          => /\ loc'.pass = 0
             /\ RingSize(nodes', loc'.ear) < ghost.escN
             /\ RingSize(nodes', stack'[1].loc.c) < ghost.escN
    /\ (pc = "splitSecond" /\ pc' = "earcutLinked")
          => loc'.pass = 0 /\ RingSize(nodes', loc'.ear) < loc.n

(* C5: Earcut returns on every input; each escalation of earcutLinked calls  *)
(* it at the next pass on a ring no larger, or at pass 0 on two rings each   *)
(* smaller than the one split; the loops of filterPoints,                    *)
(* cureLocalIntersections and splitEarcut are left.                          *)
C5_Terminates ==
    /\ <>(pc = "done")
    /\ (pc = "filterPoints") ~> (pc # "filterPoints")
    /\ (pc = "cureLocalIntersections") ~> (pc # "cureLocalIntersections")
    /\ [][EscalationStep]_vars

(* C5: Earcut returns on every input: no call of it comes to a loop that it *)
(* never leaves. The walks of isEarHashed along prevZ and nextZ (lines      *)
(* 252-290) are such loops: earcutLinked builds the z-list only at passes   *)
(* above 0 (line 147), the rings it is handed at pass 0 after a split keep  *)
(* the links of the ring that was split, and removeNode patches them into a *)
(* cycle that holds no node beyond the z-range of the ear.                  *)
C5_Returns == pc # "endless"

(* a run that went through every pass and a split, and returned *)
C5_Witness ==
    /\ Returned
    /\ ghost.splits > 0
    /\ ghost.filtered > 0
    /\ Len(triangles) > 0

-----------------------------------------------------------------------------
(* Earcut called a second time, on the same vertices in reversed order *)

Reversed(d, dm) ==
    LET n == Len(d) \div dm
    IN  [k \in 1 .. Len(d) |-> d[(n - 1 - ((k - 1) \div dm)) * dm + ((k - 1) % dm) + 1]]

Rerun ==
    /\ pc = "done"
    /\ ~err
    /\ round = 1
    /\ round' = 2
    /\ first' = triangles
    /\ data' = Reversed(data, dim)
    /\ nodes' = <<>>
    /\ triangles' = <<>>
    /\ bbox' = NoBBox
    /\ pc' = "Earcut"
    /\ loc' = [ret |-> Nil]
    /\ stack' = <<>>
    /\ ghost' = NoGhost
    /\ UNCHANGED <<holeIndices, dim, err, dev>>

(* the vertex lists of the grid, the lists of HexLen vertices of its lower   *)
(* rows that start at the origin, and the lists of more than 80 vertices;   *)
(* no holes                                                                 *)
WindingInputs ==
    GridInputs
        \cup {Input(vs, <<>>, 2) : vs \in {w \in [1 .. HexLen -> StripPoints] : w[1] = <<0, 0>>}}
        \cup LargeInputs

WindingInit == \E inp \in WindingInputs : InitWith(inp)

WindingNext == EngineNext \/ Rerun

WindingSpec == WindingInit /\ [][WindingNext]_vars

(* the triangles of an index sequence as sets of vertex positions; mirrored, *)
(* position k of a list of n vertices is read as n - 1 - k                   *)
TriangleSet(t, n, mirrored) ==
    {{IF mirrored THEN n - 1 - t[3 * k + j] ELSE t[3 * k + j] : j \in 1 .. 3} :
        k \in 0 .. Len(t) \div 3 - 1}

(* C7: for a simple polygon without holes, Earcut on the reversed vertex    *)
(* list returns the same set of triangles, as unordered triples of          *)
(* vertices, position k answering to position N - 1 - k.                    *)
C7_WindingInvariance ==
    (round = 2 /\ Returned /\ Len(holeIndices) = 0 /\ SimpleOuter)
        => TriangleSet(triangles, VertexCount, TRUE)
              = TriangleSet(first, VertexCount, FALSE)

(* a simple polygon of more than four vertices triangulated twice *)
C7_Witness ==
    /\ round = 2
    /\ Returned
    /\ SimpleOuter
    /\ VertexCount > 4
    /\ Len(first) = 3 * (VertexCount - 2)
    /\ Len(triangles) = Len(first)
    /\ first # triangles

-----------------------------------------------------------------------------
(* Deviation called on its own: any vertices of the unit square, a hole or  *)
(* none, and zero, one or two triangles over the vertices                   *)

DevPoints == (0 .. DevGrid) \X (0 .. DevGrid)

DevLists == UNION {[1 .. k -> DevPoints] : k \in 3 .. DevLen}

DevTriangles(n) == {<<>>, <<0, 1, 2>>, <<0, 1, 2, 0, 2, n - 1>>}

(* no hole, or the vertices after the third as one hole *)
DevHoles(n) == IF n > 3 THEN {<<>>, <<3>>} ELSE {<<>>}

DeviationInit ==
    \E vs \in DevLists, dm \in {2, 3} :
        \E hs \in DevHoles(Len(vs)), t \in DevTriangles(Len(vs)) :
            /\ data = Flatten(vs, dm)
            /\ holeIndices = hs
            /\ dim = dm
            /\ triangles = t
            /\ nodes = <<>>
            /\ err = FALSE
            /\ bbox = NoBBox
            /\ pc = "Deviation"
            /\ loc = [ret |-> Nil]
            /\ stack = <<>>
            /\ ghost = NoGhost
            /\ round = 1
            /\ first = <<>>
            /\ dev = <<>>

DeviationCall ==
    /\ pc = "Deviation"
    /\ dev' = <<Deviation(data, holeIndices, dim, triangles)>>
    /\ pc' = "deviated"
    /\ UNCHANGED <<data, holeIndices, dim, nodes, triangles, err, bbox, loc, stack,
                   ghost, round, first>>

DeviationNext == DeviationCall

DeviationSpec == DeviationInit /\ [][DeviationNext]_vars

(* the areas the claim speaks of, in the doubled unit, from the vertices *)
RECURSIVE SumSeq(_)
SumSeq(q) == IF q = <<>> THEN 0 ELSE Head(q) + SumSeq(Tail(q))

(* the shoelace sum over the vertices s .. e - 1 *)
Shoelace(s, e) ==
    SumSeq([k \in 1 .. e - s |->
               LET v == Vertex(s + k - 1)
                   w == Vertex(IF k = 1 THEN e - 1 ELSE s + k - 2)
               IN  (w[1] - v[1]) * (v[2] + w[2])])

OuterArea == Shoelace(0, IF Len(holeIndices) > 0 THEN Hole(0) ELSE VertexCount)

HolesArea ==
    SumSeq([i \in 1 .. Len(holeIndices) |->
               Abs(Shoelace(Hole(i - 1),
                            IF i < Len(holeIndices) THEN Hole(i) ELSE VertexCount))])

TrianglesArea ==
    SumSeq([k \in 1 .. Len(triangles) \div 3 |->
               Abs(Cross(Vertex(triangles[3 * k - 2]), Vertex(triangles[3 * k - 1]),
                         Vertex(triangles[3 * k])))])

(* 0 when P and T are 0, +Inf when only P is 0, else |T - P| / |P| *)
RelativeError(P, T) ==
    IF P = 0 /\ T = 0 THEN FInt(0)
    ELSE IF P = 0 THEN PInf
    ELSE FDiv(Abs(T - P), Abs(P))

SameFloat(a, b) == IF a[2] = 0 \/ b[2] = 0 THEN a = b ELSE FEq(a, b)

(* C9 as claimed: with P = | signedArea(outer) - sum |signedArea(hole)| |   *)
(* and T the sum of the |triangle areas|, Deviation returns 0 when P and T  *)
(* are 0, +Inf when only P is 0, else |T - P| / P, and leaves its arguments *)
(* as they were.                                                            *)
C9_AsClaimed ==
    [][pc = "Deviation"
          => /\ UNCHANGED <<data, holeIndices, dim, triangles>>
             /\ SameFloat(dev'[1], RelativeError(Abs(OuterArea - HolesArea),
                                                 TrianglesArea))]_vars

(* C9 amended: P = |signedArea(outer)| - sum |signedArea(hole)|, which may  *)
(* be negative, and the result is 0 when P and T are 0, +Inf when only P is *)
(* 0, else |T - P| / |P|; the arguments are left as they were.              *)
C9_Deviation ==
    [][pc = "Deviation"
          => /\ UNCHANGED <<data, holeIndices, dim, triangles>>
             /\ SameFloat(dev'[1], RelativeError(Abs(OuterArea) - HolesArea,
                                                 TrianglesArea))]_vars

(* an outer ring of negative signed area, a hole of the same area, and    *)
(* triangles with area: P is 0 and the result is +Inf                      *)
C9_Witness ==
    /\ pc = "deviated"
    /\ OuterArea < 0
    /\ HolesArea = Abs(OuterArea)
    /\ TrianglesArea > 0
    /\ dev[1] = PInf

-----------------------------------------------------------------------------
(* zOrder called on its own: a bounding box with corner (minX, minY) and a   *)
(* longer side that is a power of two, so that invSize is exact, and a point *)
(* with integer coordinates inside the box                                   *)

ZOrderInit ==
    \E k \in 0 .. ZSizeLog, mx \in 0 .. ZOrigin, my \in 0 .. ZOrigin :
        \E x \in mx .. mx + Pow2(k), y \in my .. my + Pow2(k) :
            /\ data = <<x, y>>
            /\ holeIndices = <<>>
            /\ dim = 2
            /\ triangles = <<>>
            /\ nodes = <<>>
            /\ err = FALSE
            /\ bbox = [minX |-> FInt(mx), minY |-> FInt(my), invSize |-> FDiv(1, Pow2(k))]
            /\ pc = "zOrder"
            /\ loc = [ret |-> NoZ]
            /\ stack = <<>>
            /\ ghost = NoGhost
            /\ round = 1
            /\ first = <<>>
            /\ dev = <<>>

ZOrderCall ==
    /\ pc = "zOrder"
    /\ loc' = [ret |-> zOrder(data[1], data[2], bbox.minX[1], bbox.minY[1], bbox.invSize)]
    /\ pc' = "zOrdered"
    /\ UNCHANGED <<data, holeIndices, dim, nodes, triangles, err, bbox, stack, ghost,
                   round, first, dev>>

ZOrderNext == ZOrderCall

ZOrderSpec == ZOrderInit /\ [][ZOrderNext]_vars

(* floor(32767 * (v - min) * invSize) for a point of the box *)
QuantizedFloor(v, min, invSize) == (32767 * (v - min) * invSize[1]) \div invSize[2]

(* C15: for a point inside the bounding box zOrder returns                   *)
(* spread(ix) | (spread(iy) << 1) with ix = floor(32767 * (x - minX) *       *)
(* invSize) and iy = floor(32767 * (y - minY) * invSize), the coordinates    *)
(* quantized to 0 .. 32767, ix in the even and iy in the odd bits.           *)
C15_Quantized ==
    pc = "zOrdered" =>
        LET ix == QuantizedFloor(data[1], bbox.minX[1], bbox.invSize)
            iy == QuantizedFloor(data[2], bbox.minY[1], bbox.invSize)
            z == zSpread(Bits(ix)) \cup Shl(zSpread(Bits(iy)), 1)
        IN  /\ ix \in 0 .. 32767
            /\ iy \in 0 .. 32767
            /\ loc.ret = <<BitsValue(z, 16, 31), BitsValue(z, 0, 15)>>

=============================================================================
